---- MODULE Spec2Model ----
(***************************************************************************)
(* German voice tutor backend: the voice_chat request pipeline             *)
(* (src/backend/app.py) with its three clients (whisper_service.py,        *)
(* ollama_client.py, tts_service.py), the history log and get_history.     *)
(*                                                                         *)
(* Strings are sequences of chunks: a chunk is one character (" ", "h")    *)
(* or a literal piece of a format string, so that strip(), the f-string    *)
(* concatenations and "contains" are computed, not assumed.                *)
(*                                                                         *)
(* The requests run the same code and carry no identity of their own, so   *)
(* the requests that have arrived are kept as a bag of their frames.       *)
(***************************************************************************)
EXTENDS Integers, Sequences, FiniteSets, Bags, TLC

\* ---------------------------------------------------------------- bounds
\* number of voice_chat requests that arrive
NumRequests == 2
\* last second the wall clock reaches (datetime.now() at line 75)
MaxClock == 1
\* largest absolute value of the limit query parameter of get_history
MaxLimit == 2
\* longest history log get_history is given
MaxLines == 3

\* ------------------------------------------------------------- strings
Whitespace == {" "}

RECURSIVE LStrip(_)
LStrip(s) ==
    IF s # <<>> /\ Head(s) \in Whitespace THEN LStrip(Tail(s)) ELSE s

RECURSIVE RStrip(_)
RStrip(s) ==
    IF s # <<>> /\ s[Len(s)] \in Whitespace
    THEN RStrip(SubSeq(s, 1, Len(s) - 1))
    ELSE s

\* str.strip()
Strip(s) == RStrip(LStrip(s))

\* t in s, for strings
Contains(s, t) ==
    \E i \in 1..(Len(s) - Len(t) + 1) : SubSeq(s, i, i + Len(t) - 1) = t

\* Python's None, kept apart from every string
None == <<"None">>

\* what model.transcribe can put in result["text"]: nothing, blanks, a
\* word between blanks
EngineTexts == {<<>>, <<" ">>, <<" ", "h", " ">>}

\* what the generation engine can put in result["response"]
LlmResponses == {<<" ", "j", "a", " ">>}

\* the topic form field
Topics == {<<"shopping">>}

\* ------------------------------------------------ whisper_service.py
\* the outcomes of the engine behind _transcribe_with_library
EngineOutcomes ==
    {[kind |-> "import_error"], [kind |-> "engine_error"]}
        \cup {[kind |-> "text", text |-> t] : t \in EngineTexts}

Sentinel == <<"[Kein Audio erkannt]">>

Raise(msg) == [raised |-> TRUE, msg |-> msg]
Return(v) == [raised |-> FALSE, value |-> v]

\* _transcribe_with_library(path, "tiny"): fileSize is the size of the
\* scratch file, -1 when it does not exist
TranscribeWithLibrary(fileSize, engine) ==
    IF engine.kind = "import_error"
    THEN Raise(<<"Cannot import whisper library">>)
    ELSE IF fileSize < 0
    THEN Raise(<<"Library transcription error: Audio file not found">>)
    ELSE IF fileSize = 0
    THEN Raise(<<"Library transcription error: Audio file is empty">>)
    ELSE IF engine.kind = "engine_error"
    THEN Raise(<<"Library transcription error: engine">>)
    ELSE LET transcribed_text == Strip(engine.text)
         IN  IF transcribed_text = <<>>
             THEN Return(Sentinel)
             ELSE Return(transcribed_text)

\* a transcribe_audio that lets the library's exception through
TranscribeAudioPropagating(fileSize, engine) ==
    TranscribeWithLibrary(fileSize, engine)

\* transcribe_audio(path): swallows every library exception
TranscribeAudio(fileSize, engine) ==
    LET result == TranscribeWithLibrary(fileSize, engine)
    IN  IF result.raised THEN Return(<<>>)
        ELSE IF result.value # <<>> THEN Return(result.value)
        ELSE Return(<<>>)

\* --------------------------------------------------- ollama_client.py
\* what requests.post does: no connection, a timeout, or an HTTP answer
\* whose JSON body has a "response" key or has none
OllamaOutcomes ==
    {[kind |-> "connection_error"], [kind |-> "timeout"]}
        \cup {[kind |-> "http", status_code |-> 500, has_response |-> FALSE,
               response |-> <<>>]}
        \cup {[kind |-> "http", status_code |-> 200, has_response |-> FALSE,
               response |-> <<>>]}
        \cup {[kind |-> "http", status_code |-> 200, has_response |-> TRUE,
               response |-> t] : t \in LlmResponses}

\* the outcomes on which ask_ollama has no text to return
OllamaFailed(outcome) ==
    IF outcome.kind # "http" THEN TRUE
    ELSE IF outcome.status_code # 200 THEN TRUE
    ELSE ~outcome.has_response

\* ask_ollama(prompt)
AskOllama(prompt, outcome) ==
    IF outcome.kind = "connection_error"
    THEN Raise(<<"Cannot connect to Ollama">>)
    ELSE IF outcome.kind = "timeout"
    THEN Raise(<<"Ollama request timed out">>)
    ELSE IF outcome.status_code # 200
    THEN Raise(<<"Ollama client error: Ollama API error">>)
    ELSE IF ~outcome.has_response
    THEN Raise(<<"Ollama client error: Invalid response format">>)
    ELSE Return(Strip(outcome.response))

\* ---------------------------------------------------------- app.py
VARIABLES
    requests,           \* the voice_chat calls that have arrived: a bag of
                        \* frames, each with its locals and its response
    conversations,      \* lines of data/history/conversations.jsonl
    audio_files,        \* data/audio: the files, each with the text spoken
    now,                \* the second datetime.now() last returned
    system_prompt_file, \* backend/prompts/system_prompt.txt, None if absent
    PYTTSX3_AVAILABLE,
    EDGE_TTS_AVAILABLE,
    history_response    \* the answer of the get_history call just served

vars ==
    <<requests, conversations, audio_files, now, system_prompt_file,
      PYTTSX3_AVAILABLE, EDGE_TTS_AVAILABLE, history_response>>

NoFile == -1

NoResponse == [status_code |-> 0]

\* how the stages of a request ended, and what it handed to the log;
\* backends are the backends save_tts_audio has called, the one it is
\* waiting for included, for as long as it has not returned; calls are
\* the stages voice_chat has entered, in the order it entered them
NoStage ==
    [stt |-> "none", transcript |-> None, llm |-> "none", tts |-> "none",
     backends |-> <<>>, append |-> "none", record |-> None, error |-> None,
     calls |-> <<>>]

\* the frame of voice_chat when the request arrives
NewRequest(tp) ==
    [pc |-> "receiving", topic |-> tp, scratch |-> NoFile,
     user_text |-> None, full_prompt |-> None, reply_text |-> None,
     tts_filename |-> None, tts_url |-> None, response |-> NoResponse,
     stage |-> NoStage]

DefaultSystemPrompt ==
    <<"You are a helpful German tutor. Respond in German.">>

SystemPromptFiles == {None, <<"Du bist ein Tutor.">>}

Init ==
    /\ requests = EmptyBag
    /\ conversations = <<>>
    /\ audio_files = {}
    /\ now = 0
    /\ system_prompt_file \in SystemPromptFiles
    /\ PYTTSX3_AVAILABLE \in BOOLEAN
    /\ EDGE_TTS_AVAILABLE \in BOOLEAN
    /\ history_response = NoResponse

\* the requests in flight or completed
Frames == BagToSet(requests)

\* the frame q of a request has become q2
Step(q, q2) == (requests (-) SetToBag({q})) (+) SetToBag({q2})

\* JSONResponse(status_code=400, ...) of the empty transcript
BadRequest ==
    [status_code |-> 400,
     content |-> [error |-> <<"Could not transcribe audio">>]]

\* a 500 body that keeps the exception message out
GenericErrorContent(msg) == [error |-> <<"Processing failed">>]

\* content of the 500 response for the exception message msg
ErrorContent(msg) == [error |-> <<"Processing failed: ">> \o msg]

\* the outer except: JSONResponse(status_code=500, ...)
ServerError(msg) == [status_code |-> 500, content |-> ErrorContent(msg)]

\* the 200 return value
Success(ut, rt, url, tp) ==
    [status_code |-> 200,
     content |-> [user_text |-> ut, reply_text |-> rt, tts_url |-> url,
                  topic |-> tp]]

\* what the upload and the temp file can do
UploadOutcomes ==
    {[kind |-> "mkstemp_error", msg |-> <<"No usable temporary directory">>],
     [kind |-> "read_error", msg |-> <<"upload read failed">>],
     [kind |-> "write_error", msg |-> <<"No space left on device">>],
     [kind |-> "ok", size |-> 0],
     [kind |-> "ok", size |-> 1]}

\* the temp file after lines 26-29: NamedTemporaryFile(delete=False) has
\* created it once mkstemp returned, whatever read and write then do
ScratchAfterUpload(up) ==
    IF up.kind = "mkstemp_error" THEN NoFile
    ELSE IF up.kind = "ok" THEN up.size
    ELSE 0

\* a handler that takes the upload for the transcript
ReceivedSkippingTranscription(q, up) ==
    IF up.kind = "ok"
    THEN [q EXCEPT !.pc = "generating", !.scratch = NoFile,
                   !.user_text = <<>>]
    ELSE [q EXCEPT !.pc = "done", !.scratch = ScratchAfterUpload(up),
                   !.stage.error = up.msg,
                   !.response = ServerError(up.msg)]

\* lines 24-32 for the frame q and the upload up; an exception goes to
\* the outer except
Received(q, up) ==
    IF up.kind = "ok"
    THEN [q EXCEPT !.pc = "transcribing", !.scratch = ScratchAfterUpload(up)]
    ELSE [q EXCEPT !.pc = "done", !.scratch = ScratchAfterUpload(up),
                   !.stage.error = up.msg,
                   !.response = ServerError(up.msg)]

\* a request arrives and its upload is saved
Receive ==
    /\ BagCardinality(requests) < NumRequests
    /\ \E tp \in Topics, up \in UploadOutcomes :
        requests' = requests (+) SetToBag({Received(NewRequest(tp), up)})
    /\ UNCHANGED <<conversations, audio_files, now, system_prompt_file,
                   PYTTSX3_AVAILABLE, EDGE_TTS_AVAILABLE, history_response>>

\* what happened behind transcribe_audio: the engine was missing, the
\* clip was refused before the engine ran, the engine threw, it heard
\* nothing, or it returned text
SttStage(fileSize, engine) ==
    IF engine.kind = "import_error" THEN "engine_missing"
    ELSE IF fileSize <= 0 THEN "refused"
    ELSE IF engine.kind = "engine_error" THEN "engine_raised"
    ELSE IF Strip(engine.text) = <<>> THEN "blank"
    ELSE "text"

\* the check of line 47 left out
NeverEmptyTranscript(ut) == FALSE

\* line 47: not user_text.strip()
IsEmptyTranscript(ut) == Strip(ut) = <<>>

\* lines 34-51 for the frame q: transcribe, delete the temp file, refuse
\* an empty transcript
Transcribed(q, engine) ==
    LET result == TranscribeAudio(q.scratch, engine)
        staged == [q EXCEPT !.stage.stt = SttStage(q.scratch, engine),
                            !.stage.calls = Append(@, "transcription"),
                            !.scratch = NoFile]
    IN  IF result.raised
        THEN [staged EXCEPT !.pc = "done", !.stage.error = result.msg,
                            !.response = ServerError(result.msg)]
        ELSE IF IsEmptyTranscript(result.value)
        THEN [staged EXCEPT !.pc = "done", !.user_text = result.value,
                            !.stage.transcript = result.value,
                            !.response = BadRequest]
        ELSE [staged EXCEPT !.pc = "generating", !.user_text = result.value,
                            !.stage.transcript = result.value]

Transcribe(q) ==
    /\ q.pc = "transcribing"
    /\ \E engine \in EngineOutcomes : requests' = Step(q, Transcribed(q, engine))
    /\ UNCHANGED <<conversations, audio_files, now, system_prompt_file,
                   PYTTSX3_AVAILABLE, EDGE_TTS_AVAILABLE, history_response>>

\* lines 54-59
SystemPrompt(file) == IF file # None THEN file ELSE DefaultSystemPrompt

\* a prompt that leaves the user's words out
BuildPromptWithoutUser(system_prompt, tp, ut) ==
    system_prompt \o <<"\n\nTopic: ">> \o tp \o <<"\nTutor:">>

\* line 62: the f-string of the prompt
BuildPrompt(system_prompt, tp, ut) ==
    system_prompt \o <<"\n\nTopic: ">> \o tp \o <<"\nUser: ">> \o ut
        \o <<"\nTutor:">>

\* line 71: the reply used when ask_ollama raises
FallbackReply(ut) ==
    <<"Ich habe verstanden: '">> \o ut
        \o <<"'. Das ist interessant! (Ollama ist nicht verfuegbar)">>

\* an engine failure that leaves the reply empty
ReplyWithoutFallback(result, ut) ==
    IF result.raised THEN <<>> ELSE result.value

\* lines 65-71: the reply of the engine, or the fallback when it raised
ReplyOrFallback(result, ut) ==
    IF result.raised THEN FallbackReply(ut) ELSE result.value

\* line 75: reply_<YYYYmmdd_HHMMSS>.wav, one name per clock second
TtsFilename(t) == <<"reply_", ToString(t), ".wav">>

\* line 79
TtsUrl(filename) == <<"/audio/">> \o filename

\* save_tts_audio lines 66-85 up to its first await, prefer_offline being
\* True: the backend tried first, or "logging" when it raises at once
FirstBackend(offline, edge) ==
    IF offline THEN "tts_offline"
    ELSE IF edge THEN "tts_edge"
    ELSE "logging"

\* the backend the frame at pc is waiting for: _pyttsx3_save or
\* _edge_tts_save
BackendAt(pc) == IF pc = "tts_edge" THEN "edge_tts" ELSE "pyttsx3"

\* lines 53-77 for the frame q: build the prompt, ask the engine, name
\* the audio file after the second t and enter save_tts_audio
Generated(q, outcome, t, first) ==
    LET prompt == BuildPrompt(SystemPrompt(system_prompt_file), q.topic,
                              q.user_text)
        result == AskOllama(prompt, outcome)
    IN  [q EXCEPT
            !.full_prompt = prompt,
            !.reply_text = ReplyOrFallback(result, q.user_text),
            !.tts_filename = IF first = "logging" THEN None ELSE TtsFilename(t),
            !.pc = first,
            !.stage.llm = IF OllamaFailed(outcome) THEN "failed" ELSE "ok",
            !.stage.calls = @ \o <<"generation", "synthesis">>,
            !.stage.tts = IF first = "logging" THEN "raised" ELSE "none",
            !.stage.backends =
                IF first = "logging" THEN <<>> ELSE <<BackendAt(first)>>]

\* datetime.now() never goes back: it returns the second it returned
\* last or a later one
Generate(q) ==
    /\ q.pc = "generating"
    /\ \E outcome \in OllamaOutcomes, t \in now..MaxClock :
        /\ requests' =
               Step(q, Generated(q, outcome, t,
                                 FirstBackend(PYTTSX3_AVAILABLE,
                                              EDGE_TTS_AVAILABLE)))
        /\ now' = t
    /\ UNCHANGED <<conversations, audio_files, system_prompt_file,
                   PYTTSX3_AVAILABLE, EDGE_TTS_AVAILABLE, history_response>>

\* ------------------------------------------------------ tts_service.py
\* a save that returns without having written output_path
WriteNothing(files, name, text) == files

\* a backend's save wrote the whole file output_path
WriteFile(files, name, text) ==
    {f \in files : f.name # name} \cup {[name |-> name, text |-> text]}

\* save_tts_audio after _pyttsx3_save raised at line 68: lines 73-85
AfterOfflineFailure(edge) ==
    IF edge THEN "tts_edge" ELSE "tts_offline_retry"

\* save_tts_audio after _edge_tts_save raised at line 75: lines 76-81
AfterEdgeFailure(offline) ==
    IF offline THEN "tts_offline_retry" ELSE "raise"

\* save_tts_audio returned: app.py lines 78-79
SynthesisSucceeded(q) ==
    [q EXCEPT !.tts_url = TtsUrl(q.tts_filename), !.pc = "logging",
              !.stage.tts = "ok", !.stage.backends = <<>>]

\* a handler that has set tts_url before save_tts_audio raised
SynthesisFailedKeepingUrl(q, next) ==
    IF next = "raise"
    THEN [q EXCEPT !.tts_url = TtsUrl(q.tts_filename), !.pc = "logging",
                   !.stage.tts = "raised", !.stage.backends = <<>>]
    ELSE [q EXCEPT !.pc = next,
                   !.stage.backends = Append(@, BackendAt(next))]

\* save_tts_audio goes on with the backend next, or raises: app.py
\* lines 80-84
SynthesisFailed(q, next) ==
    IF next = "raise"
    THEN [q EXCEPT !.tts_filename = None, !.tts_url = None,
                   !.pc = "logging", !.stage.tts = "raised",
                   !.stage.backends = <<>>]
    ELSE [q EXCEPT !.pc = next,
                   !.stage.backends = Append(@, BackendAt(next))]

\* one backend's save ends: it wrote the file, or it raised and
\* save_tts_audio goes on with next
BackendSave(q, next) ==
    /\ \E ok \in BOOLEAN :
        IF ok
        THEN /\ requests' = Step(q, SynthesisSucceeded(q))
             /\ audio_files' =
                    WriteFile(audio_files, q.tts_filename, q.reply_text)
        ELSE /\ requests' = Step(q, SynthesisFailed(q, next))
             /\ UNCHANGED audio_files
    /\ UNCHANGED <<conversations, now, system_prompt_file,
                   PYTTSX3_AVAILABLE, EDGE_TTS_AVAILABLE, history_response>>

\* line 68: await _pyttsx3_save, the offline backend tried first
PyttsxSave(q) ==
    /\ q.pc = "tts_offline"
    /\ BackendSave(q, AfterOfflineFailure(EDGE_TTS_AVAILABLE))

\* line 75: await _edge_tts_save, the networked backend
EdgeSave(q) ==
    /\ q.pc = "tts_edge"
    /\ BackendSave(q, AfterEdgeFailure(PYTTSX3_AVAILABLE))

\* lines 79 and 83: await _pyttsx3_save once more, its exception leaves
\* save_tts_audio
PyttsxSaveAgain(q) ==
    /\ q.pc = "tts_offline_retry"
    /\ BackendSave(q, "raise")

\* ------------------------------------------------- app.py, continued
\* lines 88-94: the record of the conversation; its timestamp, the
\* microsecond at which it is built, is written and not read again, and
\* is left out
Conversation(tp, ut, rt, file) ==
    [topic |-> tp, user_text |-> ut, reply_text |-> rt, tts_file |-> file]

\* the log opened with 'w': the line replaces the file
OverwriteWithLine(lines, line) == <<line>>

\* lines 97-98: open(history_file, 'a') and write one line
AppendLine(lines, line) == Append(lines, line)

\* an append whose exception reaches the outer except
LoggedOrFailed(q, ok) ==
    IF ok
    THEN [q EXCEPT
            !.pc = "done",
            !.stage.append = "ok",
            !.stage.calls = Append(@, "append"),
            !.stage.record =
                Conversation(q.topic, q.user_text, q.reply_text,
                             q.tts_filename),
            !.response =
                Success(q.user_text, q.reply_text, q.tts_url, q.topic)]
    ELSE [q EXCEPT
            !.pc = "done",
            !.stage.append = "raised",
            !.stage.calls = Append(@, "append"),
            !.stage.error = <<"Permission denied">>,
            !.response = ServerError(<<"Permission denied">>)]

\* lines 86-110 for the frame q: the record is built, the append is
\* tried, and the 200 response returned whether or not it raised
Logged(q, ok) ==
    [q EXCEPT
        !.pc = "done",
        !.stage.append = IF ok THEN "ok" ELSE "raised",
        !.stage.calls = Append(@, "append"),
        !.stage.record =
            IF ok
            THEN Conversation(q.topic, q.user_text, q.reply_text,
                              q.tts_filename)
            ELSE None,
        !.response = Success(q.user_text, q.reply_text, q.tts_url, q.topic)]

AppendHistory(q) ==
    /\ q.pc = "logging"
    /\ \E ok \in BOOLEAN :
        /\ requests' = Step(q, Logged(q, ok))
        /\ IF ok
           THEN conversations' =
                    AppendLine(conversations,
                               Conversation(q.topic, q.user_text,
                                            q.reply_text, q.tts_filename))
           ELSE UNCHANGED conversations
    /\ UNCHANGED <<audio_files, now, system_prompt_file, PYTTSX3_AVAILABLE,
                   EDGE_TTS_AVAILABLE, history_response>>

\* lines[start:] of a Python list
PySliceFrom(lines, start) ==
    LET n == Len(lines)
        from == IF start < 0
                THEN (IF n + start < 0 THEN 0 ELSE n + start)
                ELSE (IF start > n THEN n ELSE start)
    IN  SubSeq(lines, from + 1, n)

\* get_history lines 127-139: no file, or the lines lines[-limit:]; no
\* line written by voice_chat is blank, and json.loads gives back what
\* json.dumps was given
HistoryConversations(lines, limit) ==
    IF lines = <<>> THEN <<>> ELSE PySliceFrom(lines, 0 - limit)

\* GET /api/v1/history?limit=N
GetHistory ==
    /\ \E limit \in (0 - MaxLimit)..MaxLimit :
        history_response' =
            [status_code |-> 200, limit |-> limit,
             conversations |-> HistoryConversations(conversations, limit)]
    /\ UNCHANGED <<requests, conversations, audio_files, now,
                   system_prompt_file, PYTTSX3_AVAILABLE, EDGE_TTS_AVAILABLE>>

\* the route /audio/{filename} applied to the path a client asks for
AudioRoute(path) ==
    IF path # <<>> /\ Head(path) = "/audio/" THEN Tail(path) ELSE None

\* get_audio lines 147-156: the file if data/audio has it, or the 404
GetAudio(files, filename) ==
    IF \E f \in files : f.name = filename
    THEN [status_code |-> 200, media_type |-> <<"audio/wav">>,
          file |-> CHOOSE f \in files : f.name = filename]
    ELSE [status_code |-> 404,
          content |-> [error |-> <<"Audio file not found">>]]

Next ==
    \/ Receive
    \/ \E q \in Frames : Transcribe(q)
    \/ \E q \in Frames : Generate(q)
    \/ \E q \in Frames : PyttsxSave(q)
    \/ \E q \in Frames : EdgeSave(q)
    \/ \E q \in Frames : PyttsxSaveAgain(q)
    \/ \E q \in Frames : AppendHistory(q)

Spec == Init /\ [][Next]_vars

\* ------------------------------------- one event loop: uvicorn.run(app)
\* an offline save that runs _save_sync in the coroutine itself: only the
\* networked save gives the loop up
SuspendedOnNetworkOnly(q) == q.pc = "tts_edge"

\* the frame is at an await that gives the event loop up: the
\* run_in_executor of _pyttsx3_save (line 151) or the communicate.save
\* of _edge_tts_save (line 101)
Suspended(q) == q.pc \in {"tts_offline", "tts_edge", "tts_offline_retry"}

\* the frame is in the code between two awaits, or between an await and
\* its return: transcribe_audio, ask_ollama and the file writes are
\* plain calls, it keeps the loop until it is suspended or done
OnLoop(q) == q.pc # "done" /\ ~Suspended(q)

\* no handler is running: the loop can start one
LoopFree == \A r \in Frames : ~OnLoop(r)

\* the loop can run, or go on running, the frame q
LoopFreeFor(q) ==
    \A r \in Frames : OnLoop(r) => (r = q /\ CopiesIn(r, requests) = 1)

\* the server as app.py line 160 starts it: one process, one event loop,
\* every handler a coroutine on it
CooperativeNext ==
    \/ LoopFree /\ Receive
    \/ \E q \in Frames : LoopFreeFor(q) /\ Transcribe(q)
    \/ \E q \in Frames : LoopFreeFor(q) /\ Generate(q)
    \/ \E q \in Frames : LoopFreeFor(q) /\ PyttsxSave(q)
    \/ \E q \in Frames : LoopFreeFor(q) /\ EdgeSave(q)
    \/ \E q \in Frames : LoopFreeFor(q) /\ PyttsxSaveAgain(q)
    \/ \E q \in Frames : LoopFreeFor(q) /\ AppendHistory(q)

CooperativeSpec == Init /\ [][CooperativeNext]_vars

\* -------------------------------------------- get_history on any log
\* records voice_chat writes: a heard word with the fallback reply and
\* no audio, the sentinel with a reply and its audio, a word with both
HistoryRecords ==
    {Conversation(<<"shopping">>, <<"h">>, FallbackReply(<<"h">>), None),
     Conversation(<<"shopping">>, Sentinel, <<"j", "a">>, TtsFilename(0)),
     Conversation(<<"shopping">>, <<"h">>, <<"j", "a">>, TtsFilename(1))}

RECURSIVE LogsUpTo(_)
LogsUpTo(n) ==
    IF n = 0 THEN {<<>>}
    ELSE LET shorter == LogsUpTo(n - 1)
         IN  shorter \cup {Append(l, c) : l \in shorter, c \in HistoryRecords}

\* the server with some history on disk and no request in flight
HistoryInit ==
    /\ requests = EmptyBag
    /\ conversations \in LogsUpTo(MaxLines)
    /\ audio_files = {}
    /\ now = 0
    /\ system_prompt_file = None
    /\ PYTTSX3_AVAILABLE = TRUE
    /\ EDGE_TTS_AVAILABLE = TRUE
    /\ history_response = NoResponse

HistoryNext == GetHistory

HistorySpec == HistoryInit /\ [][HistoryNext]_vars

\* ================================================== the claims
Done(q) == q.pc = "done"

Status(q) == q.response.status_code

\* how many of the requests are in F
CountOf(F) ==
    BagCardinality([q \in F \cap Frames |-> CopiesIn(q, requests)])

AllDone ==
    /\ BagCardinality(requests) = NumRequests
    /\ \A q \in Frames : Done(q)

\* the requests whose append wrote its line
Appended == {q \in Frames : q.stage.append = "ok"}

\* every line of the log is the record of a request that appended, every
\* such record is in the log, and there are as many lines as appends
LogIsTheAppends ==
    /\ Len(conversations) = CountOf(Appended)
    /\ \A q \in Appended :
           \E i \in 1..Len(conversations) : conversations[i] = q.stage.record
    /\ \A i \in 1..Len(conversations) :
           \E q \in Appended : conversations[i] = q.stage.record

NonBlank(t) == t # None /\ Strip(t) # <<>>

\* s is the end of t
IsSuffix(s, t) ==
    /\ Len(s) <= Len(t)
    /\ s = SubSeq(t, Len(t) - Len(s) + 1, Len(t))

Max(a, b) == IF a >= b THEN a ELSE b

\* C1: a request whose transcription gave the empty string or the "no
\* speech recognized" sentinel ends with 400 "Could not transcribe audio"
\* and has written no record.
C1_EmptyOrSentinelIsRefused ==
    \A q \in Frames :
        (Done(q) /\ q.stage.transcript \in {<<>>, Sentinel})
            => (q.response = BadRequest /\ q.stage.append # "ok")

C3_ScratchFileDeleted ==
    \A q \in Frames : Done(q) => q.scratch = NoFile

\* C4: get_history with limit N returns at most N entries (none for
\* N <= 0), and they are the end of the log in the log's order.
C4_HistoryAtMostLimit ==
    history_response # NoResponse =>
        /\ Len(history_response.conversations)
               <= Max(history_response.limit, 0)
        /\ IsSuffix(history_response.conversations, conversations)

\* C5: a request whose generation call failed still returns 200, with
\* the fallback reply built from its transcript.
C5_GenerationFailureFallsBack ==
    \A q \in Frames :
        (Done(q) /\ q.stage.llm = "failed") =>
            /\ Status(q) = 200
            /\ q.response.content.reply_text =
                   <<"Ich habe verstanden: '">> \o q.stage.transcript
                       \o <<"'. Das ist interessant! (Ollama ist nicht verfuegbar)">>

C5_Witness ==
    \E q \in Frames :
        /\ Done(q) /\ q.stage.llm = "failed" /\ Status(q) = 200
        /\ q.stage.transcript = <<"h">>

\* C6: a request whose synthesis failed still returns 200 with a null
\* tts_url and with the transcript, the reply and the topic it had before
\* synthesis; its record, if written, has a null tts_file.
C6_SynthesisFailureGivesNullUrl ==
    \A q \in Frames :
        (Done(q) /\ q.stage.tts = "raised") =>
            /\ Status(q) = 200
            /\ q.response.content.tts_url = None
            /\ q.response.content.user_text = q.stage.transcript
            /\ q.response.content.reply_text = q.reply_text
            /\ q.response.content.reply_text # None
            /\ q.response.content.topic = q.topic
            /\ q.response.content.topic \in Topics
            /\ q.stage.append = "ok" =>
                /\ q.stage.record.tts_file = None
                /\ \E i \in 1..Len(conversations) :
                       conversations[i] = q.stage.record

\* synthesis failed after every available backend was tried, and the
\* record was written
C6_Witness ==
    \E q \in Frames :
        /\ Done(q) /\ q.stage.tts = "raised" /\ Status(q) = 200
        /\ PYTTSX3_AVAILABLE /\ EDGE_TTS_AVAILABLE
        /\ q.stage.append = "ok"

\* C7, as claimed: once every request has completed, the log has as many
\* entries as there are requests that returned 200.
C7_EntriesEqualSuccesses ==
    AllDone =>
        Len(conversations) = CountOf({q \in Frames : Status(q) = 200})

\* C7, amended: once every request has completed, the log has as many
\* entries as there are requests that returned 200 and whose append did
\* not fail, one entry for each of them; so never more entries than 200
\* responses.
C7_EntriesEqualAppended ==
    AllDone =>
        /\ Len(conversations) =
               CountOf({q \in Frames :
                           Status(q) = 200 /\ q.stage.append = "ok"})
        /\ Len(conversations) <= CountOf({q \in Frames : Status(q) = 200})
        /\ LogIsTheAppends

\* every request has appended its own record
C7_Witness ==
    /\ AllDone
    /\ Len(conversations) = NumRequests
    /\ \E i, j \in 1..Len(conversations) : conversations[i] # conversations[j]

\* C8: the transcript does not change after transcription: the 200
\* response carries it, the prompt and the fallback reply contain it,
\* and the record has it together with the reply of the response.
C8_TranscriptImmutable ==
    \A q \in Frames :
        /\ q.stage.transcript # None => q.user_text = q.stage.transcript
        /\ q.full_prompt # None =>
               Contains(q.full_prompt, q.stage.transcript)
        /\ Status(q) = 200 =>
            /\ q.response.content.user_text = q.stage.transcript
            /\ q.stage.llm = "failed" =>
                   Contains(q.response.content.reply_text,
                            q.stage.transcript)
            /\ q.stage.append = "ok" =>
                /\ q.stage.record.user_text = q.stage.transcript
                /\ q.stage.record.reply_text = q.response.content.reply_text
                /\ \E i \in 1..Len(conversations) :
                       conversations[i] = q.stage.record

C8_Witness ==
    \E q \in Frames :
        /\ Status(q) = 200 /\ q.stage.transcript = <<"h">>
        /\ q.stage.llm = "failed" /\ q.stage.append = "ok"

C11_TtsUrlResolves ==
    \A q \in Frames :
        (Status(q) = 200 /\ q.response.content.tts_url # None) =>
            /\ q.stage.tts = "ok"
            /\ AudioRoute(q.response.content.tts_url) = q.tts_filename
            /\ GetAudio(audio_files,
                        AudioRoute(q.response.content.tts_url)).status_code
                   = 200

C11_Witness ==
    \E q \in Frames :
        /\ Status(q) = 200 /\ q.response.content.tts_url # None
        /\ GetAudio(audio_files, q.tts_filename).status_code = 200

\* C12: save_tts_audio, called with prefer_offline true, tries the
\* offline backend first when it is there, the networked backend next,
\* and no backend after the networked one: no backend is called twice in
\* one call.
C12_EachBackendAtMostOnce ==
    \A q \in Frames :
        LET b == q.stage.backends
        IN  /\ (b # <<>> /\ PYTTSX3_AVAILABLE) => b[1] = "pyttsx3"
            /\ \A i, j \in 1..Len(b) : b[i] = b[j] => i = j
            /\ \A i \in 1..Len(b) : b[i] = "edge_tts" => i = Len(b)

StageOrder == <<"transcription", "generation", "synthesis", "append">>

\* s is the beginning of t
IsPrefix(s, t) == Len(s) <= Len(t) /\ s = SubSeq(t, 1, Len(s))

\* C13: a request enters its stages in the order transcription,
\* generation, synthesis, history append, response, each at most once:
\* generation only after transcription returned text that is not empty,
\* and once whether or not it failed; synthesis only once there is a
\* reply; the append only after synthesis ended; the response last.
C13_StagesInOrderOnce ==
    \A q \in Frames :
        LET c == q.stage.calls
        IN  /\ IsPrefix(c, StageOrder)
            /\ Len(c) >= 2 =>
                   /\ q.stage.stt # "none"
                   /\ NonBlank(q.stage.transcript)
                   /\ q.stage.llm \in {"ok", "failed"}
            /\ Len(c) >= 3 => q.reply_text # None
            /\ Len(c) >= 4 =>
                   /\ q.stage.tts \in {"ok", "raised"}
                   /\ q.stage.backends = <<>>
            /\ Status(q) # 0 => Done(q)
            /\ Status(q) = 200 => c = StageOrder
            /\ Status(q) = 400 => c = <<"transcription">>
            /\ Status(q) = 500 => Len(c) <= 1

\* generation failed and was not tried again: every stage ran once
C13_Witness ==
    \E q \in Frames :
        /\ Status(q) = 200 /\ q.stage.llm = "failed"
        /\ q.stage.tts = "ok" /\ q.stage.calls = StageOrder

\* C14: a request whose history append failed still returns 200, and its
\* user_text, reply_text, tts_url and topic are those it would return had
\* the append succeeded: those of a request that differs from it in the
\* append alone.
C14_AppendFailureStillSucceeds ==
    \A q \in Frames :
        q.stage.append = "raised" =>
            /\ Status(q) = 200
            /\ q.response.content =
                   [user_text |-> q.stage.transcript,
                    reply_text |-> q.reply_text,
                    tts_url |-> IF q.stage.tts = "ok"
                                THEN <<"/audio/">> \o q.tts_filename
                                ELSE None,
                    topic |-> q.topic]
            /\ q.reply_text # None /\ q.topic \in Topics
            /\ \A q2 \in Frames :
                   (q2.stage.append = "ok"
                        /\ q2.user_text = q.user_text
                        /\ q2.reply_text = q.reply_text
                        /\ q2.tts_url = q.tts_url
                        /\ q2.topic = q.topic)
                       => q2.response = q.response

\* two requests alike but for the append, one failed, with the audio
C14_Witness ==
    \E q, q2 \in Frames :
        /\ q.stage.append = "raised" /\ q2.stage.append = "ok"
        /\ q.response = q2.response /\ Status(q) = 200
        /\ q.response.content.tts_url # None

\* C16: two requests that return 200 with a tts_url return different
\* references, and the file a response refers to holds the speech of
\* that response's reply_text.
C16_TtsUrlsDistinct ==
    \A q \in Frames :
        (Status(q) = 200 /\ q.response.content.tts_url # None) =>
            /\ CopiesIn(q, requests) = 1
            /\ \A q2 \in Frames \ {q} :
                   Status(q2) = 200 =>
                       q2.response.content.tts_url
                           # q.response.content.tts_url
            /\ \A f \in audio_files :
                   f.name = AudioRoute(q.response.content.tts_url) =>
                       f.text = q.response.content.reply_text

\* the request is waiting for the offline backend
AwaitsOffline(q) == q.pc \in {"tts_offline", "tts_offline_retry"}

\* the request is waiting for a backend or has its response
Parked(q) == Done(q) \/ q.pc \in {"tts_offline", "tts_edge", "tts_offline_retry"}

\* C15: on the one event loop, while a request waits for the offline
\* backend the loop is not held: a new request can be accepted, and a
\* request that has been accepted can take its next step, before the
\* first one's synthesis ends.
C15_OfflineSaveLeavesLoopFree ==
    \A q \in Frames :
        AwaitsOffline(q) =>
            /\ ((\A r \in Frames : Parked(r))
                    /\ BagCardinality(requests) < NumRequests)
                   => ENABLED (LoopFree /\ Receive)
            /\ \A r \in Frames :
                   /\ r.pc = "transcribing"
                          => ENABLED (LoopFreeFor(r) /\ Transcribe(r))
                   /\ r.pc = "generating"
                          => ENABLED (LoopFreeFor(r) /\ Generate(r))
                   /\ r.pc = "logging"
                          => ENABLED (LoopFreeFor(r) /\ AppendHistory(r))

\* one request still waits for the offline backend, with the file name
\* of second 0; another read the clock after it, at second 1, and has
\* gone through all its stages to its 200
C15_Witness ==
    \E q, r \in Frames :
        /\ q.pc = "tts_offline" /\ q.tts_filename = TtsFilename(0)
        /\ Done(r) /\ Status(r) = 200 /\ r.stage.tts = "ok"
        /\ r.tts_filename = TtsFilename(1)

====
